---------------------------- MODULE Spec2Model ----------------------------
(***************************************************************************)
(* Model of src/legends.py: the glyph-width estimator __LaTeX_str_length   *)
(* and the column aligner __shifting.                                      *)
(*                                                                         *)
(* A Python str is a sequence of one-character strings.  A cell of a       *)
(* column (an element of one of the five argument lists) is a record       *)
(*   [t |-> "None" | "str" | "int" | "float", s, v, e]                     *)
(* where s is the text of a str, v the value of a number (an int as it is, *)
(* a float in ten-thousandths) and e, for a float written as a decimal     *)
(* literal, the sign of (the IEEE double - the literal).  An argument is   *)
(* a record [isNone, cells]: None, or a list of cells.                     *)
(***************************************************************************)
EXTENDS Integers, Sequences, FiniteSets, TLC

VARIABLES
    names, signs, values, errors, units,  \* the caller's five argument objects
    ROUNDING_COEF,                        \* the rounding argument
    before,                               \* the arguments as they were when the last call began
    Max_Length, Row_Count,                \* locals of the last call, as it left them
    returned,                             \* the outcome of each call so far, oldest first
    value, length                         \* __LaTeX_str_length: its argument and its outcome

vars == <<names, signs, values, errors, units, ROUNDING_COEF, before,
          Max_Length, Row_Count, returned, value, length>>

(***************************************************************************)
(* Bounds of the model.                                                    *)
(***************************************************************************)
MaxLen == 5       \* longest enumerated argument of __LaTeX_str_length
MaxRows == 2      \* longest enumerated column
MaxCalls == 2     \* calls of __shifting on the same argument objects

(***************************************************************************)
(* Characters.                                                             *)
(***************************************************************************)
Letters ==
    {"a","b","c","d","e","f","g","h","i","j","k","l","m",
     "n","o","p","q","r","s","t","u","v","w","x","y","z",
     "A","B","C","D","E","F","G","H","I","J","K","L","M",
     "N","O","P","Q","R","S","T","U","V","W","X","Y","Z"}

Dollar == "$"
Backslash == "\\"
Space == " "
Newline == "\n"
PlusMinus == "+-"   \* the one character U+00B1

Max(a, b) == IF a >= b THEN a ELSE b

\* ' ' * n: Python gives the empty string for n <= 0
Spaces(n) == [i \in 1..Max(n, 0) |-> Space]

\* s.replace(' ', '') == ''
IsBlank(s) == \A i \in 1..Len(s) : s[i] = Space

(***************************************************************************)
(* __LaTeX_str_length, lines 44-51, on the text of a str.                  *)
(***************************************************************************)
\* str.split(sep): the pieces between the separators, n separators give n+1 pieces
RECURSIVE SplitFrom(_, _, _, _)
SplitFrom(s, sep, i, cur) ==
    IF i > Len(s) THEN <<cur>>
    ELSE IF s[i] = sep THEN <<cur>> \o SplitFrom(s, sep, i + 1, <<>>)
    ELSE SplitFrom(s, sep, i + 1, Append(cur, s[i]))

Split(s, sep) == SplitFrom(s, sep, 1, <<>>)

\* re.sub(r'[\{\} ]', '', s) and s.replace(' ', ''): delete the characters of cs
RemoveChars(s, cs) == SelectSeq(s, LAMBDA c : c \notin cs)

\* s.replace('^', ' ').replace('_', ' ')
ReplaceChars(s, cs, by) == [i \in 1..Len(s) |-> IF s[i] \in cs THEN by ELSE s[i]]

\* the end of the longest run of letters that starts at i (i - 1 when there is none)
RECURSIVE LettersEnd(_, _)
LettersEnd(s, i) ==
    IF i <= Len(s) /\ s[i] \in Letters THEN LettersEnd(s, i + 1) ELSE i - 1

\* re.sub(r'\\([a-zA-Z]+)', '_', s): leftmost, greedy, non-overlapping
RECURSIVE SubCommandsFrom(_, _)
SubCommandsFrom(s, i) ==
    IF i > Len(s) THEN <<>>
    ELSE IF s[i] = Backslash /\ LettersEnd(s, i + 1) >= i + 1
         THEN <<"_">> \o SubCommandsFrom(s, LettersEnd(s, i + 1) + 1)
         ELSE <<s[i]>> \o SubCommandsFrom(s, i + 1)

SubCommands(s) == SubCommandsFrom(s, 1)

\* the even pieces taken for the inclusions
MutIsInclusion(i) == i % 2 = 0

\* line 46: i % 2 != 0 on Python's 0-based index i of the piece
IsInclusion(i) == i % 2 # 0

\* '^' and '_' replaced by nothing, not by a space
MutInclusion(s) ==
    RemoveChars(SubCommands(RemoveChars(RemoveChars(s, {"{", "}", Space}), {"^", "_"})),
                {Space})

\* lines 47-50: what a LaTeX inclusion is rewritten to
Inclusion(s) ==
    RemoveChars(SubCommands(ReplaceChars(RemoveChars(s, {"{", "}", Space}),
                                         {"^", "_"}, Space)),
                {Space})

\* lines 44-46: the pieces, the odd ones rewritten
Pieces(s) ==
    LET p == Split(s, Dollar)
    IN  [k \in 1..Len(p) |-> IF IsInclusion(k - 1) THEN Inclusion(p[k]) ELSE p[k]]

RECURSIVE SumLen(_, _)
SumLen(p, k) == IF k > Len(p) THEN 0 ELSE Len(p[k]) + SumLen(p, k + 1)

\* line 51: len(''.join(value))
StrLength(s) == SumLen(Pieces(s), 1)

\* lines 39-51 on a cell: the TypeError, None, or the length of a str
LaTeX_str_length(c) ==
    IF c.t \notin {"str", "None"} THEN [raised |-> "TypeError", n |-> 0]
    ELSE IF c.t = "None" THEN [raised |-> "no", n |-> 0]
    ELSE [raised |-> "no", n |-> StrLength(c.s)]

(***************************************************************************)
(* Cells, arguments and the outcome of a call.                             *)
(***************************************************************************)
NoneCell == [t |-> "None", s |-> <<>>, v |-> 0, e |-> 0]
StrCell(s) == [t |-> "str", s |-> s, v |-> 0, e |-> 0]
IntCell(n) == [t |-> "int", s |-> <<>>, v |-> n, e |-> 0]
FloatCell(v, e) == [t |-> "float", s |-> <<>>, v |-> v, e |-> e]

NoneArg == [isNone |-> TRUE, cells |-> <<>>]
ListArg(cells) == [isNone |-> FALSE, cells |-> cells]

Keys == <<"names", "signs", "values", "errors", "units">>

Returns(text) == [kind |-> "return", text |-> text, exc |-> "", col |-> ""]
\* col: the argument the message of the exception names, "" when it names none
Raises(exc, col) == [kind |-> "raise", text |-> <<>>, exc |-> exc, col |-> col]

\* bool(c) of a cell, as "if Parts[key][row]:" takes it
Truthy(c) ==
    CASE c.t = "None" -> FALSE
      [] c.t = "str" -> c.s # <<>>
      [] OTHER -> c.v # 0

(***************************************************************************)
(* Numbers to text.  A float is v ten-thousandths: FloatScale decimals.    *)
(***************************************************************************)
FloatScale == 4

RECURSIVE Pow10(_)
Pow10(n) == IF n = 0 THEN 1 ELSE 10 * Pow10(n - 1)

DigitChars == <<"0", "1", "2", "3", "4", "5", "6", "7", "8", "9">>

\* str(n) of an int n >= 0
RECURSIVE IntStr(_)
IntStr(n) == IF n < 10 THEN <<DigitChars[n + 1]>> ELSE IntStr(n \div 10) \o <<DigitChars[(n % 10) + 1]>>

\* the d decimal digits of f < 10^d, with leading zeros
RECURSIVE FracDigits(_, _)
FracDigits(f, d) == IF d = 0 THEN <<>> ELSE FracDigits(f \div 10, d - 1) \o <<DigitChars[(f % 10) + 1]>>

RECURSIVE StripZeros(_)
StripZeros(s) == IF s # <<>> /\ s[Len(s)] = "0" THEN StripZeros(SubSeq(s, 1, Len(s) - 1)) ELSE s

\* str(x) of the float x = q / 10^d: the shortest decimal, with at least one decimal
FloatStr(q, d) ==
    LET frac == StripZeros(FracDigits(q % Pow10(d), d))
    IN  IntStr(q \div Pow10(d)) \o <<".">> \o (IF frac = <<>> THEN <<"0">> ELSE frac)

\* The float c rounded to R decimals, in units of 10^-R.  A literal that is not
\* exactly half-way rounds to the nearest.  A half-way one goes to the even
\* neighbour when ties is "even", and to the side on which the double lies of
\* the literal (c.e) when ties is "exact".
RoundTo(c, R, ties) ==
    LET unit == Pow10(FloatScale - R)
        q == c.v \div unit
        r == c.v % unit
        up == IF 2 * r # unit THEN 2 * r > unit
              ELSE IF ties = "exact" /\ c.e # 0 THEN c.e > 0
              ELSE q % 2 = 1
    IN  IF up THEN q + 1 ELSE q

\* str(round(c, R)) of line 141: Python's round is correctly rounded on the double
\* it is given, and leaves an int an int
RoundStr(c, R) ==
    IF c.t = "int" THEN IntStr(c.v) ELSE FloatStr(RoundTo(c, R, "exact"), R)

\* One element of np.round(column, R).astype(str) of line 121.  NumPy rounds a
\* float as rint(x * 10^R) / 10^R, in which a half-way literal becomes an exact
\* tie and goes to the even neighbour; an int column comes back as it is, and the
\* ints of a column that holds a float are floats (asFloat).
NpRoundStr(c, R, asFloat) ==
    IF c.t = "int" THEN (IF asFloat THEN FloatStr(c.v, 0) ELSE IntStr(c.v))
    ELSE FloatStr(RoundTo(c, R, "even"), R)

(***************************************************************************)
(* __shifting, lines 113-127: the type of each argument and its width.     *)
(***************************************************************************)
RECURSIVE MaxOver(_, _)
MaxOver(ns, k) == IF k > Len(ns) THEN 0 ELSE Max(ns[k], MaxOver(ns, k + 1))

AllOf(cells, ts) == \A i \in 1..Len(cells) : cells[i].t \in ts

\* One turn of the loop of line 113 on the argument arg called key:
\* raised, the rows it counts for Row_Count, and Max_Length[key]
MaxLengthOf(key, arg, R) ==
    IF ~arg.isNone /\ AllOf(arg.cells, {"str", "None"})
    THEN \* line 117; np.vectorize refuses an array of size 0
         IF arg.cells = <<>> THEN [out |-> Raises("ValueError", ""), rows |-> 0, width |-> 0]
         ELSE [out |-> Returns(<<>>), rows |-> Len(arg.cells),
               width |-> MaxOver([i \in 1..Len(arg.cells) |-> LaTeX_str_length(arg.cells[i]).n], 1)]
    ELSE IF ~arg.isNone /\ AllOf(arg.cells, {"int", "float", "None"})
    THEN \* line 121; np.round of a list that holds None is the round of an
         \* object array, which multiplies None by a float
         IF \E i \in 1..Len(arg.cells) : arg.cells[i].t = "None"
         THEN [out |-> Raises("TypeError", ""), rows |-> 0, width |-> 0]
         ELSE LET asFloat == \E i \in 1..Len(arg.cells) : arg.cells[i].t = "float"
              IN  [out |-> Returns(<<>>), rows |-> Len(arg.cells),
                   width |-> MaxOver([i \in 1..Len(arg.cells) |->
                                        StrLength(NpRoundStr(arg.cells[i], R, asFloat))], 1)]
    ELSE IF arg.isNone
    THEN [out |-> Returns(<<>>), rows |-> 0, width |-> 0]
    ELSE [out |-> Raises("TypeError", key), rows |-> 0, width |-> 0]

\* lines 110-127 from the k-th key on: Max_Length, Row_Count, and whether it raised
RECURSIVE FindMaxLength(_, _, _, _, _)
FindMaxLength(P, R, k, ML, RC) ==
    IF k > Len(Keys) THEN [out |-> Returns(<<>>), Max_Length |-> ML, Row_Count |-> RC]
    ELSE LET key == Keys[k]
             m == MaxLengthOf(key, P[key], R)
         IN  IF m.out.kind = "raise"
             THEN [out |-> m.out, Max_Length |-> ML, Row_Count |-> RC]
             ELSE FindMaxLength(P, R, k + 1, [ML EXCEPT ![key] = m.width], Max(RC, m.rows))

(***************************************************************************)
(* __shifting, lines 130-145: every cell overwritten, in place, by its     *)
(* padded text.                                                            *)
(***************************************************************************)
\* the text that replaces a cell that is not truthy: lines 136, 139, 142, 145
BlankCell(key, ML) == StrCell(Spaces(IF key = "signs" THEN ML + 2 ELSE ML))

\* line 141: a truthy cell of values or errors
NumberCell(c, ML, R) ==
    LET text == RoundStr(c, R)
    IN  StrCell(Spaces(ML - StrLength(text)) \o text)

\* lines 135, 138, 144: a truthy str cell of names, signs or units
TextCell(key, c, ML) ==
    LET pad == Spaces(ML - StrLength(c.s))
    IN  CASE key = "names" -> StrCell(c.s \o pad)
          [] key = "signs" -> StrCell(<<"[">> \o c.s \o <<"]">> \o pad)
          [] OTHER -> StrCell(pad \o c.s)

\* lines 134-145 on one cell: the cell that replaces it, or the TypeError of a
\* truthy cell of the wrong type (round of a str; the length, or the
\* concatenation with '[', of a number)
ShiftCell(key, c, ML, R) ==
    IF ~Truthy(c) THEN [raised |-> "no", cell |-> BlankCell(key, ML)]
    ELSE IF key \in {"values", "errors"}
    THEN IF c.t = "str" THEN [raised |-> "TypeError", cell |-> c]
         ELSE [raised |-> "no", cell |-> NumberCell(c, ML, R)]
    ELSE IF c.t # "str" THEN [raised |-> "TypeError", cell |-> c]
         ELSE [raised |-> "no", cell |-> TextCell(key, c, ML)]

\* the loop of line 133 from row on (row counts from 1): the cells as it leaves
\* them; a list shorter than Row_Count ends it with an IndexError
RECURSIVE ShiftRows(_, _, _, _, _, _)
ShiftRows(key, cells, row, RC, ML, R) ==
    IF row > RC THEN [out |-> Returns(<<>>), cells |-> cells]
    ELSE IF row > Len(cells) THEN [out |-> Raises("IndexError", ""), cells |-> cells]
    ELSE LET c == ShiftCell(key, cells[row], ML, R)
         IN  IF c.raised # "no" THEN [out |-> Raises(c.raised, ""), cells |-> cells]
             ELSE ShiftRows(key, [cells EXCEPT ![row] = c.cell], row + 1, RC, ML, R)

\* the loop of line 131 from the k-th key on: the five arguments as it leaves them
RECURSIVE ShiftParts(_, _, _, _, _)
ShiftParts(P, R, k, ML, RC) ==
    IF k > Len(Keys) THEN [out |-> Returns(<<>>), Parts |-> P]
    ELSE LET key == Keys[k]
         IN  IF P[key].isNone \/ P[key].cells = <<>>     \* "if Parts[key]:"
             THEN ShiftParts(P, R, k + 1, ML, RC)
             ELSE LET s == ShiftRows(key, P[key].cells, 1, RC, ML[key], R)
                      Q == [P EXCEPT ![key] = ListArg(s.cells)]
                  IN  IF s.out.kind = "raise" THEN [out |-> s.out, Parts |-> Q]
                      ELSE ShiftParts(Q, R, k + 1, ML, RC)

(***************************************************************************)
(* __shifting, lines 148-165: the rows put together.                       *)
(***************************************************************************)
\* lines 150-163: one row; both branches of lines 153-163 add the same text
ResultRow(P, row) ==
    LET n == P["names"].cells[row].s
    IN  n \o (IF IsBlank(n) THEN <<Space, Space>> ELSE <<":", Space>>)
          \o P["signs"].cells[row].s \o <<Space, "=">>
          \o <<Space>> \o P["values"].cells[row].s \o <<Space, PlusMinus, Space>>
          \o <<Space>> \o P["errors"].cells[row].s \o <<Space>>
          \o <<Space>> \o P["units"].cells[row].s

\* '\n'.join(Result)
RECURSIVE JoinRows(_, _, _)
JoinRows(P, row, RC) ==
    IF row > RC THEN <<>>
    ELSE ResultRow(P, row) \o (IF row < RC THEN <<Newline>> ELSE <<>>) \o JoinRows(P, row + 1, RC)

\* lines 148-165: None[row] is a TypeError
Concatenate(P, RC) ==
    IF RC >= 1 /\ \E k \in 1..Len(Keys) : P[Keys[k]].isNone
    THEN Raises("TypeError", "")
    ELSE Returns(JoinRows(P, 1, RC))

(***************************************************************************)
(* __shifting, lines 107-165, on the argument objects P: what it leaves in *)
(* them, its locals Max_Length and Row_Count, and what it returns or       *)
(* raises.                                                                 *)
(***************************************************************************)
NoLength == [k \in {Keys[i] : i \in 1..Len(Keys)} |-> 0]

\* Shifting with Row_Count the length of the shortest list, not of the longest
MutShifting(P, R) ==
    LET f == FindMaxLength(P, R, 1, NoLength, 0)
        lens == {Len(P[k].cells) : k \in {j \in {Keys[i] : i \in 1..Len(Keys)} : ~P[j].isNone}}
        rc == IF lens = {} THEN 0 ELSE CHOOSE n \in lens : \A m \in lens : n <= m
    IN  IF f.out.kind = "raise"
        THEN [out |-> f.out, Parts |-> P, Max_Length |-> f.Max_Length, Row_Count |-> f.Row_Count]
        ELSE LET s == ShiftParts(P, R, 1, f.Max_Length, rc)
             IN  [out |-> IF s.out.kind = "raise" THEN s.out
                          ELSE Concatenate(s.Parts, rc),
                  Parts |-> s.Parts, Max_Length |-> f.Max_Length, Row_Count |-> rc]

Shifting(P, R) ==
    LET f == FindMaxLength(P, R, 1, NoLength, 0)
    IN  IF f.out.kind = "raise"
        THEN [out |-> f.out, Parts |-> P, Max_Length |-> f.Max_Length, Row_Count |-> f.Row_Count]
        ELSE LET s == ShiftParts(P, R, 1, f.Max_Length, f.Row_Count)
             IN  [out |-> IF s.out.kind = "raise" THEN s.out
                          ELSE Concatenate(s.Parts, f.Row_Count),
                  Parts |-> s.Parts, Max_Length |-> f.Max_Length, Row_Count |-> f.Row_Count]

(***************************************************************************)
(* The arguments a caller passes.                                          *)
(***************************************************************************)
Roundings == {1, 3}

Alt == StrCell(<<"A", "l", "t">>)
Sym == StrCell(<<"A">>)
Cm == StrCell(<<"c", "m">>)
F0_988 == FloatCell(9880, -1)       \* 0.988; the double lies below the literal
F0_001 == FloatCell(10, 1)          \* 0.001; the double lies above
F0_0005 == FloatCell(5, 1)          \* 0.0005; the double lies above
F0_326 == FloatCell(3260, 1)        \* 0.326
F0_0 == FloatCell(0, 0)             \* 0.0

NameCells ==
    {NoneCell, Alt,
     StrCell(<<"x", "$", "^", "2", "$">>),          \* x$^2$
     StrCell(<<"a", "$", "b">>)}                    \* a$b: one '$'
SignCells == {NoneCell, Sym, StrCell(<<"$", Backslash, "c", "h", "i", "$">>)}   \* $\chi$
UnitCells == {NoneCell, Cm}
ValueCells == {NoneCell, IntCell(0), IntCell(12), F0_0, F0_988, F0_0005}
ErrorCells == {NoneCell, F0_0, F0_001}

Default == [names |-> Alt, signs |-> Sym, values |-> F0_988, errors |-> F0_001, units |-> Cm]

KeySet == {Keys[i] : i \in 1..Len(Keys)}

\* the five lists whose rows are the records of rows
Columns(rows) == [k \in KeySet |-> ListArg([i \in 1..Len(rows) |-> rows[i][k]])]

RowsOver(domain) == UNION {[1..n -> domain] : n \in 1..MaxRows}

\* five lists of one length: every text, the numbers fixed
TextRows ==
    {[Default EXCEPT !.names = n, !.signs = s, !.units = u] :
        n \in NameCells, s \in SignCells, u \in UnitCells}

\* five lists of one length: every number, the texts fixed
NumberRows ==
    {[Default EXCEPT !.values = v, !.errors = e] : v \in ValueCells, e \in ErrorCells}

\* each argument None or a list of 0..MaxRows cells of its type
Shapes(k) == {NoneArg} \cup {ListArg([i \in 1..n |-> Default[k]]) : n \in 0..MaxRows}

\* each argument None, or a list of its type, of both types, of numbers and
\* None, or of the other type (the cells of that one not truthy)
Kinds(k) ==
    {NoneArg,
     ListArg(<<Default[k], Default[k]>>),
     ListArg(<<Alt, IntCell(12)>>),
     ListArg(<<NoneCell, F0_326, Cm>>),
     ListArg(<<F0_326, NoneCell>>),
     IF k \in {"values", "errors"} THEN ListArg(<<StrCell(<<>>), NoneCell>>)
                                   ELSE ListArg(<<IntCell(0), F0_0>>)}

\* the two scenarios of the examples: a blank second row, and two full rows
BlankRow == [k \in KeySet |-> NoneCell]
Altitude ==
    [Default EXCEPT !.names = StrCell(<<"A", "l", "t", "i", "t", "u", "d", "e">>),
                    !.signs = Alt]
Height ==
    [names |-> StrCell(<<"H", "e", "i", "g", "h", "t">>), signs |-> StrCell(<<"H">>),
     values |-> F0_326, errors |-> F0_001, units |-> StrCell(<<"m">>)]
Scenarios == {Columns(<<Default, BlankRow>>), Columns(<<Altitude, Height>>)}

Inputs ==
    {Columns(rows) : rows \in RowsOver(TextRows)}
      \cup {Columns(rows) : rows \in RowsOver(NumberRows)}
      \cup [names : Shapes("names"), signs : Shapes("signs"), values : Shapes("values"),
            errors : Shapes("errors"), units : Shapes("units")]
      \cup [names : Kinds("names"), signs : Kinds("signs"), values : Kinds("values"),
            errors : Kinds("errors"), units : Kinds("units")]
      \cup Scenarios

(***************************************************************************)
(* The calls of __shifting.                                                *)
(***************************************************************************)
Parts == [names |-> names, signs |-> signs, values |-> values, errors |-> errors,
          units |-> units]

NotCalled == [raised |-> "not called", n |-> 0]

Init ==
    /\ \E a \in Inputs :
          /\ names = a.names
          /\ signs = a.signs
          /\ values = a.values
          /\ errors = a.errors
          /\ units = a.units
          /\ before = a
    /\ ROUNDING_COEF \in Roundings
    /\ Max_Length = NoLength
    /\ Row_Count = 0
    /\ returned = <<>>
    /\ value = NoneCell
    /\ length = NotCalled

\* __shifting(names, signs, values, errors, units, ROUNDING_COEF), the caller
\* passing the list objects it holds
Call ==
    /\ Len(returned) < MaxCalls
    /\ \E r \in {Shifting(Parts, ROUNDING_COEF)} :      \* the one outcome of the call
           /\ names' = r.Parts.names
           /\ signs' = r.Parts.signs
           /\ values' = r.Parts.values
           /\ errors' = r.Parts.errors
           /\ units' = r.Parts.units
           /\ Max_Length' = r.Max_Length
           /\ Row_Count' = r.Row_Count
           /\ returned' = Append(returned, r.out)
    /\ before' = Parts
    /\ UNCHANGED <<ROUNDING_COEF, value, length>>

Next == Call

Spec == Init /\ [][Next]_vars

(***************************************************************************)
(* The calls of __LaTeX_str_length on their own.                           *)
(***************************************************************************)
\* '^' is rewritten as '_' is and '}' as '{' is: the examples below hold both
Alphabet == {"a", "2", Dollar, Backslash, "_", "{", Space}

\* the two examples of the docstring, lines 21 and 26
Example10 ==
    <<"A", " ", "+", " ", "$", " ", Backslash, "c", "h", "i", "^", "{", "2", "}", " ", "$",
      " ", "+", " ", "B">>
Example2 == <<"$", " ", Backslash, "c", "h", "i", "^", "{", "2", "}", " ", "$">>

LengthInputs ==
    {NoneCell, IntCell(12), F0_988}
      \cup {StrCell(s) : s \in UNION {[1..n -> Alphabet] : n \in 0..MaxLen}}
      \cup {StrCell(Example10), StrCell(Example2)}

InitLength ==
    /\ value \in LengthInputs
    /\ length = NotCalled
    /\ names = NoneArg
    /\ signs = NoneArg
    /\ values = NoneArg
    /\ errors = NoneArg
    /\ units = NoneArg
    /\ before = [k \in KeySet |-> NoneArg]
    /\ ROUNDING_COEF = 3
    /\ Max_Length = NoLength
    /\ Row_Count = 0
    /\ returned = <<>>

\* __LaTeX_str_length(value)
Measure ==
    /\ length = NotCalled
    /\ length' = LaTeX_str_length(value)
    /\ UNCHANGED <<names, signs, values, errors, units, ROUNDING_COEF, before,
                   Max_Length, Row_Count, returned, value>>

NextLength == Measure

SpecLength == InitLength /\ [][NextLength]_vars

(***************************************************************************)
(* What the claims speak of.                                               *)
(***************************************************************************)
Called == Len(returned) >= 1
Last == returned[Len(returned)]
FirstCall == Len(returned) = 1

IsText(c) == c.t = "str"
IsNumber(c) == c.t \in {"int", "float"}
OfType(k, c) == IF k \in {"values", "errors"} THEN IsNumber(c) ELSE IsText(c)

CountOf(s, ch) == Cardinality({i \in 1..Len(s) : s[i] = ch})
EvenDollars(s) == CountOf(s, Dollar) % 2 = 0

\* a is a list of n cells, each None or of the type of column k, the texts with
\* an even number of '$'
TypedList(k, a, n, noneCells) ==
    /\ ~a.isNone
    /\ Len(a.cells) = n
    /\ \A i \in 1..n :
          \/ noneCells /\ a.cells[i].t = "None"
          \/ OfType(k, a.cells[i]) /\ EvenDollars(a.cells[i].s)

\* the lines of a returned text
LineCount(text) == IF text = <<>> THEN 1 ELSE CountOf(text, Newline) + 1

\* a list that holds both a str and a number
Mixed(a) ==
    /\ ~a.isNone
    /\ \E i \in 1..Len(a.cells) : IsText(a.cells[i])
    /\ \E i \in 1..Len(a.cells) : IsNumber(a.cells[i])

ReservedWidth(k) == IF k = "signs" THEN Max_Length[k] + 2 ELSE Max_Length[k]

(***************************************************************************)
(* The claims about __shifting, under Spec.                                *)
(***************************************************************************)
\* C1: after a call that returns, given five lists of Row_Count >= 1 cells, each
\* cell None or of its column's type and each text with an even number of '$',
\* every padded cell of a column measures (by __LaTeX_str_length) the width
\* reserved for its column: Max_Length[column], and Max_Length["signs"] + 2 for
\* signs.
C1_Alignment ==
    (/\ Called
     /\ Last.kind = "return"
     /\ Row_Count >= 1
     /\ \A k \in KeySet : TypedList(k, before[k], Row_Count, TRUE))
    => \A k \in KeySet : \A row \in 1..Row_Count :
          StrLength(Parts[k].cells[row].s) = ReservedWidth(k)

\* C2: a first call in which some argument is None and every other argument is
\* a list of the same n >= 1 cells of its type returns n lines, the None
\* column blank on each, and does not raise.
C2_NoneColumnIsBlank ==
    (/\ FirstCall
     /\ \E k \in KeySet : before[k].isNone
     /\ \E n \in 1..(MaxRows + 1) : \A k \in KeySet :
           before[k].isNone \/ TypedList(k, before[k], n, FALSE))
    => /\ Last.kind = "return"
       /\ LineCount(Last.text) = Row_Count

\* C3: a first call on five lists of the same n >= 1 cells, each cell None or of
\* its column's type (None also in values and errors), does not raise and
\* returns n lines; so does the blank-row scenario.
C3_NoneCellIsBlank ==
    (/\ FirstCall
     /\ \E n \in 1..(MaxRows + 1) : \A k \in KeySet : TypedList(k, before[k], n, TRUE))
    => /\ Last.kind = "return"
       /\ LineCount(Last.text) = Len(before["names"].cells)

\* C4: when the first call returned a text, the call repeated with the same
\* arguments returns the same text.
C4_Idempotent ==
    (Len(returned) >= 2 /\ returned[1].kind = "return") => returned[2] = returned[1]

\* C5: after a call, returned or raised, each of the five arguments holds what
\* it held when the call began.
C5_ArgumentsUnchanged == Called => Parts = before

\* C6: a call in which some list holds both a str and a number raises a
\* TypeError that names such a list, and leaves every argument as it was.
C6_MixedColumnNamed ==
    (Called /\ \E k \in KeySet : Mixed(before[k]))
    => /\ Last.kind = "raise"
       /\ Last.exc = "TypeError"
       /\ Last.col \in KeySet
       /\ Mixed(before[Last.col])
       /\ Parts = before

\* C7: a call in which two arguments are lists of different lengths raises.
C7_LengthMismatchRaises ==
    (/\ Called
     /\ \E j, k \in KeySet :
           /\ ~before[j].isNone
           /\ ~before[k].isNone
           /\ Len(before[j].cells) # Len(before[k].cells))
    => Last.kind = "raise"

\* C7, its case: two lists of different lengths, both with cells, and the
\* IndexError of the shorter one
C7_Witness ==
    /\ Called
    /\ Last = Raises("IndexError", "")
    /\ Len(before["names"].cells) = 2
    /\ Len(before["units"].cells) = 1

\* C9: after a first call that returns, every number of values and errors, 0
\* and 0.0 among them, stands in its row as the text of the number rounded
\* to ROUNDING_COEF decimals, spaces before it up to the width of the column.
C9_NumbersRendered ==
    (FirstCall /\ Last.kind = "return")
    => \A k \in {"values", "errors"} : \A row \in 1..Row_Count :
          IsNumber(before[k].cells[row])
          => LET text == RoundStr(before[k].cells[row], ROUNDING_COEF)
             IN  Parts[k].cells[row].s = Spaces(Max_Length[k] - Len(text)) \o text

(***************************************************************************)
(* The claims about __LaTeX_str_length, under SpecLength.                  *)
(***************************************************************************)
Measured == length # NotCalled

\* C8: the length of None is 0; the length of a str with an even number of
\* '$' is at least 0 and at most its number of characters; the length of a
\* str without '$' is its number of characters.
C8_LengthBounds ==
    Measured =>
        /\ value.t = "None" => length = [raised |-> "no", n |-> 0]
        /\ (value.t = "str" /\ EvenDollars(value.s))
              => (length.raised = "no" /\ 0 <= length.n /\ length.n <= Len(value.s))
        /\ (value.t = "str" /\ CountOf(value.s, Dollar) = 0)
              => (length.raised = "no" /\ length.n = Len(value.s))

\* C8, its case: a str with two '$' and an inclusion that counts for less than
\* its characters
C8_Witness ==
    /\ Measured
    /\ value.t = "str"
    /\ CountOf(value.s, Dollar) = 2
    /\ length.n < Len(value.s) - 2

\* The rule as C10 words it, on one odd piece: braces and spaces deleted, then
\* '^' and '_' deleted, then every backslash with its letters made one character
ClaimedInclusion(s) ==
    SubCommands(RemoveChars(RemoveChars(s, {"{", "}", Space}), {"^", "_"}))

ClaimedLength(s) ==
    LET p == Split(s, Dollar)
    IN  SumLen([k \in 1..Len(p) |-> IF (k - 1) % 2 = 1 THEN ClaimedInclusion(p[k]) ELSE p[k]], 1)

\* C10 as stated: the length of every str is the sum over its '$'-separated
\* pieces of the characters of the even pieces and of what is left of the odd
\* ones once braces and spaces, then '^' and '_', are deleted and every
\* backslash with its letters is one character.
C10_ClaimedRule ==
    (Measured /\ value.t = "str") => (length.raised = "no" /\ length.n = ClaimedLength(value.s))

\* The rule with '^' and '_' ending a command name, as one pass over the
\* characters: mode is "plain" outside '$' and, inside, "text", "slash" (after
\* a backslash) or "name" (in the letters of a command).
RECURSIVE RuleFrom(_, _, _)
RuleFrom(s, i, mode) ==
    IF i > Len(s) THEN 0
    ELSE LET c == s[i]
         IN  CASE c = Dollar ->
                    RuleFrom(s, i + 1, IF mode = "plain" THEN "text" ELSE "plain")
               [] c # Dollar /\ mode = "plain" -> 1 + RuleFrom(s, i + 1, "plain")
               [] c # Dollar /\ mode # "plain" /\ c \in {"{", "}", Space} ->
                    RuleFrom(s, i + 1, mode)
               [] c # Dollar /\ mode # "plain" /\ c \in {"^", "_"} ->
                    RuleFrom(s, i + 1, "text")
               [] c # Dollar /\ mode # "plain" /\ c = Backslash ->
                    1 + RuleFrom(s, i + 1, "slash")
               [] c # Dollar /\ mode \in {"slash", "name"} /\ c \in Letters ->
                    RuleFrom(s, i + 1, "name")
               [] OTHER -> 1 + RuleFrom(s, i + 1, "text")

\* C10 as amended: the length of every str is the number of its characters
\* outside '$...$' plus, inside, one for every character that is no '$', brace,
\* space, '^' or '_', a backslash and the letters after it counting as one, where
\* braces and spaces do not end the letters and '^' and '_' do; the two
\* examples of the docstring give 10 and 2.
C10_AmendedRule ==
    (Measured /\ value.t = "str")
    => /\ length.raised = "no"
       /\ length.n = RuleFrom(value.s, 1, "plain")
       /\ value.s = Example10 => length.n = 10
       /\ value.s = Example2 => length.n = 2

\* C10, its case: $\a_a, where '_' ends the command name: two characters
C10_Witness ==
    /\ Measured
    /\ value = StrCell(<<Dollar, Backslash, "a", "_", "a">>)
    /\ length.n = 2

=============================================================================
